---- MODULE Spec2Model ----
(***************************************************************************)
(* Arrival-detection state machine of the Map component                    *)
(* (src/unnamed/part_001, lines 11-266): marker selection, the arm         *)
(* control, the geolocation watch and the marker registry.                 *)
(*                                                                         *)
(* Positions are metres along one line; the spherical distance of the      *)
(* mapping SDK is the absolute difference on that line.  A marker object   *)
(* is its index in the sequence `placed`.  Every handler leaves a record   *)
(* of itself in `last`: the operation, its arguments, the state it started *)
(* from, its observable effects, and, when the handler before it was a     *)
(* marker click, a summary of that click.  A success callback that the    *)
(* source has queued runs later, possibly after its watch was cleared; the *)
(* position it carries is chosen when it runs.                             *)
(***************************************************************************)
EXTENDS Integers, Sequences, FiniteSets, TLC

VARIABLES map, geolocation, placed, markers, activeMarker, circleCenter,
          circleRef, targetAcquired, watchId, btnText, liveWatches,
          nextWatch, pending, last

vars == <<map, geolocation, placed, markers, activeMarker, circleCenter,
          circleRef, targetAcquired, watchId, btnText, liveWatches,
          nextWatch, pending, last>>

----------------------------------------------------------------------------
(* Bounds of the model *)

\* predefined points of interest handed to the component
NumPois == 2
\* markers the user adds with a right-click on the map
MaxRightClicks == 2
\* watches the Geolocation Source hands out in one session
MaxWatches == 2
\* position callbacks queued by the source and not yet run
MaxPending == 2

----------------------------------------------------------------------------
(* Program constants and value domains *)

\* the null of a ref or of a state variable
Null == -1

\* radius of the circle around the designated marker, in metres
DEFAULT_RADIUS == 800

\* the right click button on the mouse
RIGHT_CLICK == 2

\* buttons that raise auxclick: the middle and the right one
AuxButtons == {1, RIGHT_CLICK}

\* radii the circle can have: the default, and one the user edits it to
Radii == {DEFAULT_RADIUS, DEFAULT_RADIUS \div 2}

PoiKeys == 1..NumPois

\* location of the k-th predefined point of interest
PoiLocation(k) == k * 5 * DEFAULT_RADIUS

\* title of the marker of the k-th predefined point of interest
PoiTitle(k) == <<"poi", k>>

\* where the user right-clicks the map
RightClickPositions == {DEFAULT_RADIUS}

\* title of a marker added by right-click: `{${lat}, ${lng}}`
RightClickTitle(p) == <<"latlng", p>>

MarkerPositions == {PoiLocation(k) : k \in PoiKeys} \cup RightClickPositions

\* how far from the designated marker the user is when the Geolocation
\* Source reports: on it, on the boundary of the edited circle (inside the
\* default one), and on the boundary of the default circle
Offsets == {0, DEFAULT_RADIUS \div 2, DEFAULT_RADIUS}

NotifyText == "Notify Me Upon Arrival"
CancelText == "Cancel Notification/ Designate a Different Marker"

\* google.maps.geometry.spherical.computeDistanceBetween, on the line
Distance(a, b) == IF a >= b THEN a - b ELSE b - a

\* variant: every handle counts as set
Truthy_Any(w) == TRUE

\* variant: the first handle the source returns is falsy, as zero is
Truthy_NotFirst(w) == w # Null /\ w # 0 /\ w # 1

\* truthiness of a number-or-null, as in `if (watchId.current)`
Truthy(w) == w # Null /\ w # 0

----------------------------------------------------------------------------
(* History of handlers *)

\* the fields of the state machine a handler starts from
Core == [activeMarker   |-> activeMarker,
         circleCenter   |-> circleCenter,
         targetAcquired |-> targetAcquired,
         watchId        |-> watchId,
         btnText        |-> btnText,
         live           |-> liveWatches,
         markers        |-> markers]

\* the state of the machine in a snapshot
MachineState(c) ==
    IF c.targetAcquired THEN "ARMED"
    ELSE IF c.activeMarker # Null THEN "SELECTED"
    ELSE "IDLE"

\* a snapshot is the state after construction
Initial(c) ==
    /\ c.activeMarker = Null
    /\ c.circleCenter = Null
    /\ c.targetAcquired = FALSE
    /\ c.watchId = Null

\* the observable effects of a handler: the alert shown, the handles
\* returned by watchPosition, the arguments of clearWatch, the arguments
\* of panTo, the radius read from the circle (Null: none, or not read),
\* and the keys given to setMarkerRef for removal
NoFx == [alert |-> "none", started |-> <<>>, cleared |-> <<>>, pan |-> <<>>,
         radius |-> Null, unset |-> <<>>]

NoPrev == [op |-> "none", marker |-> Null, from |-> "IDLE", initial |-> TRUE]

\* what a record says of the marker click that ran just before it
Summary(r) == [op |-> r.op, marker |-> r.marker,
               from |-> MachineState(r.pre), initial |-> Initial(r.pre)]

\* the record of a handler; alerts counts the arrival alerts since the last
\* click on the arm control that started a watch
Rec(op, marker, pos, watch, fx) ==
    [op |-> op, marker |-> marker, pos |-> pos, watch |-> watch,
     pre |-> Core, fx |-> fx,
     prev |-> IF op = "click" /\ last.op = "click" THEN Summary(last)
              ELSE NoPrev,
     alerts |-> IF fx.started # <<>> THEN 0
                ELSE IF fx.alert = "arrived" THEN last.alerts + 1
                ELSE last.alerts]

----------------------------------------------------------------------------
(* Marker registry *)

\* variant: the listeners see the registry as it is when they run
closureMarkers_Live == markers

\* the `markers` state as the listeners see it: they are registered once,
\* by the effects that run when the map is set, and keep the closure of
\* that render, in which no marker has been stored yet
closureMarkers == <<>>

Has(reg, key) == key \in DOMAIN reg

\* variant: the removal deletes the entry of the key
setMarkerRef_Removes(prev, marker, key) ==
    IF marker # Null
    THEN [k \in DOMAIN prev \cup {key} |->
             IF k = key THEN marker ELSE prev[k]]
    ELSE [k \in DOMAIN prev \ {key} |-> prev[k]]

\* setMarkerRef(marker, key); marker = Null is the removal
setMarkerRef(prev, marker, key) ==
    IF marker # Null /\ Has(closureMarkers, key) THEN prev
    ELSE IF marker = Null /\ ~Has(closureMarkers, key) THEN prev
    ELSE IF marker # Null
         THEN [k \in DOMAIN prev \cup {key} |->
                  IF k = key THEN marker ELSE prev[k]]
         ELSE [k \in DOMAIN prev \ {key} |-> prev[k]]

\* new AdvancedMarkerElement({map, position, title, ...})
NewMarker(title, position) == [title |-> title, position |-> position]

MarkerIds == 1..Len(placed)

PoisPlaced == Len(placed) >= NumPois

RightClicked ==
    Cardinality({m \in MarkerIds : placed[m].title[1] = "latlng"})

----------------------------------------------------------------------------
(* Initial state: the component is mounted, the map is not loaded yet *)

Init ==
    /\ map = FALSE
    /\ geolocation \in BOOLEAN
    /\ placed = <<>>
    /\ markers = <<>>
    /\ activeMarker = Null
    /\ circleCenter = Null
    /\ circleRef = Null
    /\ targetAcquired = FALSE
    /\ watchId = Null
    /\ btnText = "absent"
    /\ liveWatches = {}
    /\ nextWatch = 1
    /\ pending = [w \in 1..MaxWatches |-> 0]
    /\ last = [op |-> "none", marker |-> Null, pos |-> Null, watch |-> Null,
               pre |-> [activeMarker |-> Null, circleCenter |-> Null,
                        targetAcquired |-> FALSE, watchId |-> Null,
                        btnText |-> "absent", live |-> {},
                        markers |-> <<>>],
               fx |-> NoFx, prev |-> NoPrev, alerts |-> 0]

----------------------------------------------------------------------------
(* Loading *)

\* variant: the arm control is added whether or not the Geolocation
\* Source exists
InitMap_AlwaysButton ==
    /\ ~map
    /\ map' = TRUE
    /\ btnText' = NotifyText
    /\ UNCHANGED <<geolocation, placed, markers, activeMarker, circleCenter,
                   circleRef, targetAcquired, watchId, liveWatches,
                   nextWatch, pending, last>>

\* initMap resolves and setMap runs; the effects that depend on the map
\* add the arm control when the Geolocation Source exists
InitMap ==
    /\ ~map
    /\ map' = TRUE
    /\ btnText' = IF geolocation THEN NotifyText ELSE btnText
    /\ UNCHANGED <<geolocation, placed, markers, activeMarker, circleCenter,
                   circleRef, targetAcquired, watchId, liveWatches,
                   nextWatch, pending, last>>

\* the Circle component creates its circle with the radius prop and
\* hands it to the parent's circleRef
InitCircle ==
    /\ map
    /\ circleRef = Null
    /\ circleRef' = DEFAULT_RADIUS
    /\ UNCHANGED <<map, geolocation, placed, markers, activeMarker,
                   circleCenter, targetAcquired, watchId, btnText,
                   liveWatches, nextWatch, pending, last>>

\* the user drags the boundary of the (editable) circle shown on the map
EditRadius(r) ==
    /\ circleRef # Null
    /\ circleCenter # Null
    /\ r # circleRef
    /\ circleRef' = r
    /\ UNCHANGED <<map, geolocation, placed, markers, activeMarker,
                   circleCenter, targetAcquired, watchId, btnText,
                   liveWatches, nextWatch, pending, last>>

\* props.pois.map: one marker for each point of interest, in the order of
\* the list, once the marker library is there
RECURSIVE PoiMarkers(_)
PoiMarkers(k) ==
    IF k = 0 THEN <<>>
    ELSE Append(PoiMarkers(k - 1), NewMarker(PoiTitle(k), PoiLocation(k)))

RECURSIVE PoiRegistry(_, _)
PoiRegistry(reg, k) ==
    IF k = 0 THEN reg
    ELSE setMarkerRef(PoiRegistry(reg, k - 1), k, PoiTitle(k))

InitPoiMarkers ==
    /\ map
    /\ ~PoisPlaced
    /\ placed' = PoiMarkers(NumPois)
    /\ markers' = PoiRegistry(markers, NumPois)
    /\ UNCHANGED <<map, geolocation, activeMarker, circleCenter, circleRef,
                   targetAcquired, watchId, btnText, liveWatches, nextWatch,
                   pending, last>>

\* variant: the marker added by a right-click is designated at once
RightClick_Selects(p) ==
    /\ map
    /\ PoisPlaced
    /\ RightClicked < MaxRightClicks
    /\ placed' = Append(placed, NewMarker(RightClickTitle(p), p))
    /\ markers' = setMarkerRef(markers, Len(placed) + 1, RightClickTitle(p))
    /\ activeMarker' = Len(placed) + 1
    /\ circleCenter' = p
    /\ last' = Rec("rightclick", Len(placed) + 1, p, Null, NoFx)
    /\ UNCHANGED <<map, geolocation, circleRef,
                   targetAcquired, watchId, btnText, liveWatches, nextWatch,
                   pending>>

\* the map's rightclick listener: a marker at the clicked coordinates
RightClick(p) ==
    /\ map
    /\ PoisPlaced
    /\ RightClicked < MaxRightClicks
    /\ placed' = Append(placed, NewMarker(RightClickTitle(p), p))
    /\ markers' = setMarkerRef(markers, Len(placed) + 1, RightClickTitle(p))
    /\ last' = Rec("rightclick", Len(placed) + 1, p, Null, NoFx)
    /\ UNCHANGED <<map, geolocation, activeMarker, circleCenter, circleRef,
                   targetAcquired, watchId, btnText, liveWatches, nextWatch,
                   pending>>

----------------------------------------------------------------------------
(* Marker click: handleClick *)

\* ev.latLng of a click on a marker: the position of that marker
EventLatLng(m) == placed[m].position

\* variant: marker clicks are handled while armed
ClickIgnored_Never == FALSE

\* `if (targetAcquired.current) return`
ClickIgnored == targetAcquired

\* variant: a click always selects, also on the active marker
ClickSelects_Always(m) == TRUE

\* `!activeMarker.current || clickedMarker.title !== activeMarker.current.title`
ClickSelects(m) ==
    activeMarker = Null \/ placed[m].title # placed[activeMarker].title

\* variant: the circle is centred on every click, also on a deselecting one
ClickCenter_Always(m) == EventLatLng(m)

\* the argument of setCircleCenter
ClickCenter(m) == IF ClickSelects(m) THEN EventLatLng(m) ELSE Null

\* variant: a click that is handled gives the circle its default radius
handleClick_ResetsRadius(m) ==
    /\ map
    /\ m \in MarkerIds
    /\ IF ClickIgnored
       THEN /\ UNCHANGED <<activeMarker, circleCenter, circleRef>>
            /\ last' = Rec("click", m, EventLatLng(m), Null, NoFx)
       ELSE /\ activeMarker' = IF ClickSelects(m) THEN m ELSE Null
            /\ circleCenter' = ClickCenter(m)
            /\ circleRef' = IF circleRef = Null THEN Null ELSE DEFAULT_RADIUS
            /\ last' = Rec("click", m, EventLatLng(m), Null,
                                      [NoFx EXCEPT !.pan = <<EventLatLng(m)>>])
    /\ UNCHANGED <<map, geolocation, placed, markers,
                   targetAcquired, watchId, btnText, liveWatches, nextWatch,
                   pending>>

handleClick(m) ==
    /\ map
    /\ m \in MarkerIds
    /\ IF ClickIgnored
       THEN /\ UNCHANGED <<activeMarker, circleCenter>>
            /\ last' = Rec("click", m, EventLatLng(m), Null, NoFx)
       ELSE /\ activeMarker' = IF ClickSelects(m) THEN m ELSE Null
            /\ circleCenter' = ClickCenter(m)
            /\ last' = Rec("click", m, EventLatLng(m), Null,
                                      [NoFx EXCEPT !.pan = <<EventLatLng(m)>>])
    /\ UNCHANGED <<map, geolocation, placed, markers, circleRef,
                   targetAcquired, watchId, btnText, liveWatches, nextWatch,
                   pending>>

----------------------------------------------------------------------------
(* Marker aux-click: handleAuxClick *)

\* `(ev.domEvent as MouseEvent).button !== RIGHT_CLICK`
AuxClickRemoves(button) == button # RIGHT_CLICK

\* variant: the aux-click is handled while armed too
handleAuxClick_WhileArmed(m, button) ==
    /\ map
    /\ m \in MarkerIds
    /\ IF AuxClickRemoves(button)
       THEN /\ markers' = setMarkerRef(markers, Null, placed[m].title)
            /\ last' = Rec("auxclick", m, Null, Null,
                           [NoFx EXCEPT !.unset = <<placed[m].title>>])
       ELSE /\ UNCHANGED markers
            /\ last' = Rec("auxclick", m, Null, Null, NoFx)
    /\ UNCHANGED <<map, geolocation, placed, activeMarker, circleCenter,
                   circleRef, targetAcquired, watchId, btnText, liveWatches,
                   nextWatch, pending>>

handleAuxClick(m, button) ==
    /\ map
    /\ m \in MarkerIds
    /\ IF ~targetAcquired /\ AuxClickRemoves(button)
       THEN /\ markers' = setMarkerRef(markers, Null, placed[m].title)
            /\ last' = Rec("auxclick", m, Null, Null,
                           [NoFx EXCEPT !.unset = <<placed[m].title>>])
       ELSE /\ UNCHANGED markers
            /\ last' = Rec("auxclick", m, Null, Null, NoFx)
    /\ UNCHANGED <<map, geolocation, placed, activeMarker, circleCenter,
                   circleRef, targetAcquired, watchId, btnText, liveWatches,
                   nextWatch, pending>>

----------------------------------------------------------------------------
(* Arm control: handleTargetAcquired.  The handle watchPosition returns is *)
(* the next number of the source, which counts its watches from one: the   *)
(* Geolocation API has a watch id be greater than zero.                    *)

\* variant: the arm control does not ask for a designated marker
NothingDesignated_Never == FALSE

\* `if (!activeMarker.current)`
NothingDesignated == activeMarker = Null

\* variant: the arm control arms whenever a marker is designated
CanArm_Always == TRUE

\* `else if (!targetAcquired.current)`
CanArm == ~targetAcquired

\* variants: the handle is kept after clearWatch; the handle is reset to
\* zero; clearWatch is not called
ClearedWatchId_Kept == watchId
ClearedWatchId_Zero == IF Truthy(watchId) THEN 0 ELSE watchId
ClearedLive_NotCleared == liveWatches

\* `if (watchId.current) { clearWatch(watchId.current); watchId.current = null }`
\* the calls of clearWatch, the handle afterwards, the watches left live
ClearCalls == IF Truthy(watchId) THEN <<watchId>> ELSE <<>>
ClearedWatchId == IF Truthy(watchId) THEN Null ELSE watchId
ClearedLive == IF Truthy(watchId) THEN liveWatches \ {watchId}
                                  ELSE liveWatches

\* variant: the cancel path leaves the label of the control as it is
handleTargetAcquired_KeepsLabel ==
    /\ btnText # "absent"
    /\ IF NothingDesignated
       THEN /\ UNCHANGED <<targetAcquired, watchId, btnText, liveWatches,
                           nextWatch>>
            /\ last' = Rec("arm", Null, Null, Null,
                                      [NoFx EXCEPT !.alert = "prompt"])
       ELSE IF CanArm
       THEN /\ nextWatch <= MaxWatches
            /\ btnText' = CancelText
            /\ targetAcquired' = TRUE
            /\ IF geolocation
               THEN /\ watchId' = nextWatch
                    /\ liveWatches' = liveWatches \cup {nextWatch}
                    /\ nextWatch' = nextWatch + 1
                    /\ last' = Rec("arm", Null, Null, nextWatch,
                                       [NoFx EXCEPT !.started = <<nextWatch>>])
               ELSE /\ UNCHANGED <<watchId, liveWatches, nextWatch>>
                    /\ last' = Rec("arm", Null, Null, Null, NoFx)
       ELSE /\ targetAcquired' = FALSE
            /\ watchId' = ClearedWatchId
            /\ liveWatches' = ClearedLive
            /\ UNCHANGED <<btnText, nextWatch>>
            /\ last' = Rec("arm", Null, Null, Null,
                                      [NoFx EXCEPT !.cleared = ClearCalls])
    /\ UNCHANGED <<map, geolocation, placed, markers, activeMarker,
                   circleCenter, circleRef, pending>>

handleTargetAcquired ==
    /\ btnText # "absent"
    /\ IF NothingDesignated
       THEN /\ UNCHANGED <<targetAcquired, watchId, btnText, liveWatches,
                           nextWatch>>
            /\ last' = Rec("arm", Null, Null, Null,
                                      [NoFx EXCEPT !.alert = "prompt"])
       ELSE IF CanArm
       THEN /\ nextWatch <= MaxWatches
            /\ btnText' = CancelText
            /\ targetAcquired' = TRUE
            /\ IF geolocation
               THEN /\ watchId' = nextWatch
                    /\ liveWatches' = liveWatches \cup {nextWatch}
                    /\ nextWatch' = nextWatch + 1
                    /\ last' = Rec("arm", Null, Null, nextWatch,
                                       [NoFx EXCEPT !.started = <<nextWatch>>])
               ELSE /\ UNCHANGED <<watchId, liveWatches, nextWatch>>
                    /\ last' = Rec("arm", Null, Null, Null, NoFx)
       ELSE /\ btnText' = NotifyText
            /\ targetAcquired' = FALSE
            /\ watchId' = ClearedWatchId
            /\ liveWatches' = ClearedLive
            /\ UNCHANGED nextWatch
            /\ last' = Rec("arm", Null, Null, Null,
                                      [NoFx EXCEPT !.cleared = ClearCalls])
    /\ UNCHANGED <<map, geolocation, placed, markers, activeMarker,
                   circleCenter, circleRef, pending>>

----------------------------------------------------------------------------
(* Geolocation Source and the callbacks given to watchPosition *)

\* the number of success callbacks queued and not yet run; pending[w] are
\* those of watch w
RECURSIVE Queued(_)
Queued(w) == IF w = 0 THEN 0 ELSE pending[w] + Queued(w - 1)

\* positions the Geolocation Source reports: around the designated marker,
\* or where the user right-clicks when no marker is designated
UserPositions ==
    IF activeMarker = Null
    THEN RightClickPositions
    ELSE {placed[activeMarker].position + d : d \in Offsets}

\* the source has a fix for a live watch and queues the success callback
PositionFix(w) ==
    /\ w \in liveWatches
    /\ Queued(MaxWatches) < MaxPending
    /\ pending' = [pending EXCEPT ![w] = @ + 1]
    /\ UNCHANGED <<map, geolocation, placed, markers, activeMarker,
                   circleCenter, circleRef, targetAcquired, watchId, btnText,
                   liveWatches, nextWatch, last>>

\* variants: a position on the boundary of the circle counts as arrived;
\* every position counts as arrived; only a position outside counts; the
\* distance is taken from the first marker placed; the radius is the
\* default one
Arrived_Le(p) ==
    /\ activeMarker # Null
    /\ circleRef # Null
    /\ Distance(placed[activeMarker].position, p) <= circleRef

Arrived_Any(p) ==
    /\ activeMarker # Null
    /\ circleRef # Null

Arrived_Gt(p) ==
    /\ activeMarker # Null
    /\ circleRef # Null
    /\ Distance(placed[activeMarker].position, p) > circleRef

Arrived_First(p) ==
    /\ activeMarker # Null
    /\ circleRef # Null
    /\ Distance(placed[1].position, p) < circleRef

Arrived_Default(p) ==
    /\ activeMarker # Null
    /\ circleRef # Null
    /\ Distance(placed[activeMarker].position, p) < DEFAULT_RADIUS

\* computeDistanceBetween(activeMarker.current?.position, pos)
\*     < circleRef.current?.getRadius()
\* (no marker: the distance is not a number; no circle: the radius is
\* undefined; the comparison is false in both cases)
Arrived(p) ==
    /\ activeMarker # Null
    /\ circleRef # Null
    /\ Distance(placed[activeMarker].position, p) < circleRef

\* a queued success callback of watch w runs with position p, whether or
\* not the watch is still live
watchPositionSuccess(w, p) ==
    /\ pending[w] > 0
    /\ pending' = [pending EXCEPT ![w] = @ - 1]
    /\ IF Arrived(p)
       THEN /\ btnText' = NotifyText
            /\ targetAcquired' = FALSE
            /\ watchId' = ClearedWatchId
            /\ liveWatches' = ClearedLive
            /\ last' = Rec("position", Null, p, w,
                              [NoFx EXCEPT !.alert = "arrived",
                                           !.cleared = ClearCalls,
                                           !.radius = circleRef])
       ELSE /\ UNCHANGED <<targetAcquired, watchId, btnText, liveWatches>>
            /\ last' = Rec("position", Null, p, w,
                              [NoFx EXCEPT !.radius = circleRef])
    /\ UNCHANGED <<map, geolocation, placed, markers, activeMarker,
                   circleCenter, circleRef, nextWatch>>

\* variant: the error callback tears the watch down and disarms
watchPositionError_TearsDown(w) ==
    /\ w \in 1..(nextWatch - 1)
    /\ btnText' = NotifyText
    /\ targetAcquired' = FALSE
    /\ watchId' = ClearedWatchId
    /\ liveWatches' = ClearedLive
    /\ last' = Rec("error", Null, Null, w, [NoFx EXCEPT !.cleared = ClearCalls])
    /\ UNCHANGED <<map, geolocation, placed, markers, activeMarker,
                   circleCenter, circleRef, nextWatch, pending>>

\* the error callback (no fix within MAX_TIMEOUT, or another failure)
\* of a watch that was started: console.error and nothing else
watchPositionError(w) ==
    /\ w \in 1..(nextWatch - 1)
    /\ last' = Rec("error", Null, Null, w, NoFx)
    /\ UNCHANGED <<map, geolocation, placed, markers, activeMarker,
                   circleCenter, circleRef, targetAcquired, watchId, btnText,
                   liveWatches, nextWatch, pending>>

----------------------------------------------------------------------------
Next ==
    \/ InitMap
    \/ InitCircle
    \/ \E r \in Radii : EditRadius(r)
    \/ InitPoiMarkers
    \/ \E p \in RightClickPositions : RightClick(p)
    \/ \E m \in MarkerIds : handleClick(m)
    \/ \E m \in MarkerIds, b \in AuxButtons : handleAuxClick(m, b)
    \/ handleTargetAcquired
    \/ \E w \in liveWatches : PositionFix(w)
    \/ \E w \in 1..MaxWatches, p \in UserPositions : watchPositionSuccess(w, p)
    \/ \E w \in 1..MaxWatches : watchPositionError(w)

Spec == Init /\ [][Next]_vars

\* position p lies strictly inside the circle around the designated marker
InsideCircle(p) ==
    /\ activeMarker # Null
    /\ circleRef # Null
    /\ Distance(placed[activeMarker].position, p) < circleRef

\* a success callback runs with a position inside the circle
InsideUpdate ==
    \E w \in 1..MaxWatches, p \in UserPositions :
        InsideCircle(p) /\ watchPositionSuccess(w, p)

\* The circle, once the map exists, is created; the Geolocation Source keeps
\* reporting to a live watch; and of the callbacks it delivers, those with
\* a position inside the circle keep coming.
FairSpec ==
    /\ Spec
    /\ WF_vars(InitCircle)
    /\ WF_vars(\E w \in liveWatches : PositionFix(w))
    /\ SF_vars(InsideUpdate)

----------------------------------------------------------------------------
(* Types *)

TypeOK ==
    /\ map \in BOOLEAN
    /\ geolocation \in BOOLEAN
    /\ activeMarker \in MarkerIds \cup {Null}
    /\ circleCenter \in MarkerPositions \cup {Null}
    /\ circleRef \in Radii \cup {Null}
    /\ targetAcquired \in BOOLEAN
    /\ watchId \in (1..MaxWatches) \cup {Null}
    /\ btnText \in {"absent", NotifyText, CancelText}
    /\ liveWatches \subseteq 1..MaxWatches
    /\ nextWatch \in 1..(MaxWatches + 1)
    /\ pending \in [1..MaxWatches -> 0..MaxPending]
    /\ Queued(MaxWatches) <= MaxPending
    /\ last.op \in {"none", "rightclick", "click", "auxclick", "arm",
                  "position", "error"}

----------------------------------------------------------------------------
(* Properties *)

\* the position of the last update is strictly inside the circle that was
\* around the Active Selection when the update was handled
LastInside ==
    /\ last.pre.activeMarker # Null
    /\ last.fx.radius # Null
    /\ Distance(placed[last.pre.activeMarker].position, last.pos)
           < last.fx.radius

\* the last handler left Active Selection and circle center alone
SelectionKept ==
    /\ activeMarker = last.pre.activeMarker
    /\ circleCenter = last.pre.circleCenter

\* the last handler left arming flag, watch handle and label alone
ArmingKept ==
    /\ targetAcquired = last.pre.targetAcquired
    /\ watchId = last.pre.watchId
    /\ btnText = last.pre.btnText

\* C1: a position update inside the circle, handled in state ARMED, leads
\* to SELECTED: the watch is cancelled at the source, the handle is null,
\* the arming flag is false, the arrival alert has been emitted, and
\* Active Selection and circle center are as before.
C1_ArrivalDisarms ==
    (last.op = "position" /\ MachineState(last.pre) = "ARMED" /\ LastInside)
    => /\ MachineState(Core) = "SELECTED"
       /\ last.fx.cleared = <<last.pre.watchId>>
       /\ last.pre.watchId \notin liveWatches
       /\ liveWatches = {}
       /\ watchId = Null
       /\ ~targetAcquired
       /\ last.fx.alert = "arrived"
       /\ SelectionKept

C1_Witness ==
    /\ last.op = "position"
    /\ MachineState(last.pre) = "ARMED"
    /\ LastInside
    /\ last.pos = placed[last.pre.activeMarker].position
    /\ last.fx.alert = "arrived"

\* C2: a position callback delivered after its watch has been cleared is
\* a no-op: no arrival alert, and Active Selection, circle center, arming
\* flag, watch handle and label are unchanged.
C2_StaleCallbackIsNoOp ==
    (last.op = "position" /\ last.watch \notin last.pre.live)
    => /\ last.fx.alert = "none"
       /\ last.fx.cleared = <<>>
       /\ SelectionKept
       /\ ArmingKept

\* C3: the Geolocation Source holds at most one live watch, and the arm
\* control starts a watch only when none is live.
C3_AtMostOneLiveWatch ==
    /\ Cardinality(liveWatches) <= 1
    /\ (last.op = "arm" /\ last.fx.started # <<>>) => last.pre.live = {}

C3_Witness ==
    /\ last.op = "arm"
    /\ last.fx.started # <<>>
    /\ last.pre.live = {}
    /\ liveWatches = {2}

\* C4: the watch handle is non-null exactly when the arming flag is true.
C4_HandleIffArmed == (watchId # Null) <=> targetAcquired

C4_Witness ==
    /\ targetAcquired
    /\ watchId \in liveWatches
    /\ last.op = "arm"
    /\ last.fx.started = <<watchId>>
    /\ nextWatch > 2

\* C5: the arm control clicked without an Active Selection shows the prompt,
\* requests no watch, and leaves Active Selection, circle center, arming
\* flag, watch handle and label unchanged.
C5_ArmRejectedWithoutSelection ==
    (last.op = "arm" /\ last.pre.activeMarker = Null)
    => /\ last.fx.alert = "prompt"
       /\ last.fx.started = <<>>
       /\ liveWatches = last.pre.live
       /\ SelectionKept
       /\ ArmingKept

C5_Witness ==
    /\ last.op = "arm"
    /\ last.pre.activeMarker = Null
    /\ last.fx.alert = "prompt"

\* C6: while the arming flag is true the Active Selection is non-null.
C6_ArmedHasSelection == targetAcquired => activeMarker # Null

C6_Witness ==
    /\ targetAcquired
    /\ last.op = "click"
    /\ last.marker = activeMarker

\* C7: the circle center is null exactly when the Active Selection is null,
\* and otherwise it is the location of the active marker.
C7_CircleFollowsSelection ==
    /\ (circleCenter = Null) <=> (activeMarker = Null)
    /\ activeMarker # Null => circleCenter = placed[activeMarker].position

C7_Witness ==
    /\ last.op = "click"
    /\ last.prev.op = "click"
    /\ last.pre.activeMarker = last.marker
    /\ activeMarker = Null
    /\ circleCenter = Null

\* C8: for distinct markers A and B, clicking A and then B from a state
\* that is not ARMED leaves the Active Selection equal to B.
C8_SecondClickSelects ==
    (/\ last.op = "click"
     /\ last.prev.op = "click"
     /\ last.prev.from # "ARMED"
     /\ last.prev.marker # last.marker)
    => activeMarker = last.marker

\* C9: from the initial IDLE state, clicking a marker and clicking it again
\* gives the initial IDLE state: Active Selection null, circle center null,
\* arming flag false, watch handle null.
C9_ToggleRoundTrip ==
    (/\ last.op = "click"
     /\ last.prev.op = "click"
     /\ last.prev.initial
     /\ last.prev.marker = last.marker)
    => Initial(Core)

C9_Witness ==
    /\ last.op = "click"
    /\ last.prev.op = "click"
    /\ last.prev.initial
    /\ last.prev.marker = last.marker
    /\ last.pre.activeMarker = last.marker
    /\ last.pre.circleCenter = placed[last.marker].position

\* the last handler ran a disarm path: the arm control clicked while armed,
\* or a position update that counted as an arrival
LastDisarmed ==
    \/ last.op = "arm" /\ last.pre.targetAcquired
    \/ last.op = "position" /\ last.fx.alert = "arrived"

\* C10: cancelling is idempotent: a disarm path never calls clearWatch on
\* a null or already-cleared handle, and it leaves the arming flag false and
\* the handle null; when no watch exists it calls clearWatch not at all.
C10_CancelIdempotent ==
    LastDisarmed
    => /\ \A i \in DOMAIN last.fx.cleared :
              last.fx.cleared[i] # Null /\ last.fx.cleared[i] \in last.pre.live
       /\ (last.pre.watchId = Null \/ last.pre.watchId \notin last.pre.live)
              => last.fx.cleared = <<>>
       /\ ~targetAcquired
       /\ watchId = Null

C10_Witness ==
    /\ LastDisarmed
    /\ last.pre.targetAcquired = FALSE
    /\ last.pre.watchId = Null
    /\ last.pre.live = {}
    /\ last.fx.cleared = <<>>


\* how far the position of the last update was from the marker that was
\* the Active Selection when the update was handled
LastDistance == Distance(placed[last.pre.activeMarker].position, last.pos)

\* the last handler was a position update handled in state ARMED with a
\* circle around the Active Selection
LastUpdateArmed ==
    /\ last.op = "position"
    /\ MachineState(last.pre) = "ARMED"
    /\ last.pre.activeMarker # Null
    /\ last.fx.radius # Null

\* C11: the arrival test is strict: a position update handled in ARMED at a
\* distance exactly the circle radius emits no arrival alert and leaves the
\* machine ARMED, and one at any smaller distance emits the arrival alert.
C11_StrictArrival ==
    LastUpdateArmed
    => /\ LastDistance = last.fx.radius
           => (last.fx.alert = "none" /\ MachineState(Core) = "ARMED")
       /\ LastDistance < last.fx.radius => last.fx.alert = "arrived"

C11_Witness ==
    /\ LastUpdateArmed
    /\ LastDistance = last.fx.radius
    /\ last.fx.radius = DEFAULT_RADIUS
    /\ last.fx.alert = "none"
    /\ targetAcquired

\* C12: a position update handled in ARMED at a distance greater than or
\* equal to the circle radius is a no-op: no alert, no clearWatch, and
\* Active Selection, circle center, arming flag, watch handle, label and
\* live watches are unchanged, so the machine stays ARMED.
C12_OutsideUpdateIsNoOp ==
    (LastUpdateArmed /\ LastDistance >= last.fx.radius)
    => /\ last.fx.alert = "none"
       /\ last.fx.cleared = <<>>
       /\ SelectionKept
       /\ ArmingKept
       /\ liveWatches = last.pre.live
       /\ MachineState(Core) = "ARMED"

C12_Witness ==
    /\ LastUpdateArmed
    /\ LastDistance > last.fx.radius
    /\ last.watch = watchId
    /\ watchId \in liveWatches
    /\ btnText = CancelText

\* C13: the arm control clicked in state ARMED leads to SELECTED: the watch
\* is cancelled at the source, the handle is null, the arming flag is
\* false, the Active Selection and circle center are retained, and no
\* arrival alert is emitted.
C13_CancelDisarms ==
    (last.op = "arm" /\ MachineState(last.pre) = "ARMED")
    => /\ MachineState(Core) = "SELECTED"
       /\ last.fx.cleared = <<last.pre.watchId>>
       /\ last.pre.watchId \notin liveWatches
       /\ liveWatches = {}
       /\ watchId = Null
       /\ ~targetAcquired
       /\ activeMarker # Null
       /\ SelectionKept
       /\ last.fx.alert = "none"

\* the arm control cancelled a watch whose first fix was still queued
C13_Witness ==
    /\ last.op = "arm"
    /\ MachineState(last.pre) = "ARMED"
    /\ last.pre.watchId \in last.pre.live
    /\ pending[last.pre.watchId] > 0
    /\ btnText = NotifyText

\* C14: the error callback of a watch, timeout included, changes nothing:
\* no alert, no clearWatch, the same live watches, and Active Selection,
\* circle center, arming flag, watch handle and label unchanged.
C14_ErrorChangesNothing ==
    last.op = "error"
    => /\ last.fx.alert = "none"
       /\ last.fx.cleared = <<>>
       /\ liveWatches = last.pre.live
       /\ SelectionKept
       /\ ArmingKept
       /\ MachineState(Core) = MachineState(last.pre)

C14_Witness ==
    /\ last.op = "error"
    /\ MachineState(last.pre) = "ARMED"
    /\ last.watch = watchId
    /\ last.watch \in liveWatches
    /\ targetAcquired

\* C15: without a Geolocation Source the machine is never ARMED: the arming
\* flag stays false, the handle null, no watch is ever requested, and the
\* arm control is never offered or clicked.
C15_NoSourceNeverArmed ==
    ~geolocation
    => /\ ~targetAcquired
       /\ watchId = Null
       /\ liveWatches = {}
       /\ nextWatch = 1
       /\ btnText = "absent"
       /\ last.op # "arm"
       /\ MachineState(Core) # "ARMED"

C15_Witness ==
    /\ ~geolocation
    /\ map
    /\ activeMarker # Null
    /\ last.op = "click"
    /\ btnText = "absent"


\* the last handler was an arrival: the alert was emitted and the machine is
\* SELECTED with no watch
LastArrival ==
    /\ last.op = "position"
    /\ last.fx.alert = "arrived"
    /\ MachineState(Core) = "SELECTED"
    /\ watchId = Null
    /\ liveWatches = {}

\* the last handler was the arm control clicked while armed
LastCancel == last.op = "arm" /\ last.pre.targetAcquired

\* C16: once ARMED, when the Geolocation Source keeps delivering position
\* updates strictly inside the circle around the Active Selection, then
\* eventually the arrival alert is emitted and the machine is SELECTED with
\* the watch cleared, unless the user clicks the arm control first.
C16_ArrivalEventually ==
    (MachineState(Core) = "ARMED") ~> (LastArrival \/ LastCancel)

C16_Witness ==
    /\ LastArrival
    /\ MachineState(last.pre) = "ARMED"
    /\ last.watch = last.pre.watchId
    /\ LastInside
    /\ last.pos # placed[last.pre.activeMarker].position


\* the registry reg with key mapped to marker, and with key deleted
WithEntry(reg, key, marker) ==
    [k \in DOMAIN reg \cup {key} |-> IF k = key THEN marker ELSE reg[k]]

WithoutEntry(reg, key) == [k \in DOMAIN reg \ {key} |-> reg[k]]

\* C17: setMarkerRef(marker, key) with a key not in the registry adds the
\* entry key -> marker and changes no other entry, and with a key already in
\* the registry it leaves the registry unchanged; at POI initialisation
\* (every POI key maps to its marker) and at the map right-click listener.
C17_UpsertAddsOrKeeps ==
    /\ PoisPlaced => \A k \in PoiKeys :
           Has(markers, PoiTitle(k)) /\ markers[PoiTitle(k)] = k
    /\ last.op = "rightclick"
           => markers = IF Has(last.pre.markers, placed[last.marker].title)
                        THEN last.pre.markers
                        ELSE WithEntry(last.pre.markers,
                                       placed[last.marker].title, last.marker)

\* C18: setMarkerRef(null, key) issued by a marker's auxclick handler
\* deletes exactly the entry of key when key is in the registry, and leaves
\* the registry unchanged when it is not.
C18_RemoveDeletesEntry ==
    (last.op = "auxclick" /\ last.fx.unset # <<>>)
    => markers = IF Has(last.pre.markers, last.fx.unset[1])
                 THEN WithoutEntry(last.pre.markers, last.fx.unset[1])
                 ELSE last.pre.markers

C20_OneMarkerPerKey ==
    /\ \A m, n \in MarkerIds : placed[m].title = placed[n].title => m = n
    /\ \A m \in MarkerIds :
           Has(markers, placed[m].title) /\ markers[placed[m].title] = m


\* C21: the label of the arm control, once the control exists, is the
\* cancel text exactly when the arming flag is true and the notify text
\* exactly when it is false, after an arrival and after a rejected arm
\* attempt too.
C21_LabelFollowsFlag ==
    btnText # "absent"
    => /\ (btnText = CancelText) <=> targetAcquired
       /\ (btnText = NotifyText) <=> ~targetAcquired

\* the arm control was clicked while armed and shows the notify text again
C21_Witness ==
    /\ last.op = "arm"
    /\ last.pre.btnText = CancelText
    /\ last.pre.targetAcquired
    /\ btnText = NotifyText
    /\ ~targetAcquired

\* C22: in state SELECTED, a click on a marker other than the active one
\* leads in one step to SELECTED with that marker as Active Selection and
\* the circle center at its location.
C22_SwitchIsDirect ==
    (/\ last.op = "click"
     /\ MachineState(last.pre) = "SELECTED"
     /\ last.marker # last.pre.activeMarker)
    => /\ MachineState(Core) = "SELECTED"
       /\ activeMarker = last.marker
       /\ circleCenter = placed[last.marker].position

\* C23: while the arming flag is true a click or an aux-click on a marker
\* is ignored: Active Selection, circle center, arming flag, watch handle,
\* label, live watches and registry are unchanged, the map is not panned
\* and no removal is asked for.
C23_ArmedIgnoresMarkerClicks ==
    (last.op \in {"click", "auxclick"} /\ last.pre.targetAcquired)
    => /\ SelectionKept
       /\ ArmingKept
       /\ liveWatches = last.pre.live
       /\ markers = last.pre.markers
       /\ last.fx.pan = <<>>
       /\ last.fx.unset = <<>>

\* an aux-click on a marker other than the active one, while armed
C23_Witness ==
    /\ last.op = "auxclick"
    /\ last.pre.targetAcquired
    /\ last.marker # activeMarker
    /\ targetAcquired


\* C24: from arming to the disarm that ends it the Active Selection and
\* its stored location do not change, and every position update handled in
\* between counts as an arrival exactly when its distance to that stored
\* location is below the radius.
C24_DistanceToArmedMarker ==
    [][/\ (targetAcquired /\ targetAcquired')
           => /\ activeMarker' = activeMarker
              /\ activeMarker # Null
              /\ placed'[activeMarker] = placed[activeMarker]
       /\ LastUpdateArmed'
           => (last'.fx.alert = "arrived"
                  <=> LastDistance' < last'.fx.radius)]_vars

\* an arrival at the second point of interest, for a watch that is not the
\* first one
C24_Witness ==
    /\ LastUpdateArmed
    /\ last.pre.activeMarker = 2
    /\ last.pos = PoiLocation(2)
    /\ last.watch > 1
    /\ last.fx.alert = "arrived"


\* C25: whenever the arming flag is false the Geolocation Source holds no
\* live watch: the disarm that follows an arming clears the watch it
\* started, whichever handle watchPosition returned for it.
C25_DisarmedHasNoWatch ==
    /\ ~targetAcquired => liveWatches = {}
    /\ LastDisarmed
           => (last.pre.watchId \in last.pre.live
                  => last.fx.cleared = <<last.pre.watchId>>)

\* the disarm of the second arming cleared the second watch
C25_Witness ==
    /\ LastDisarmed
    /\ last.pre.watchId = 2
    /\ last.fx.cleared = <<2>>
    /\ ~targetAcquired
    /\ liveWatches = {}
    /\ nextWatch = 3


\* C26: between one click that arms and the next the arrival alert is
\* emitted at most once.
C26_OneAlertPerArming == last.alerts <= 1


\* C27: a step that changes the radius of the circle is no marker click,
\* arming, disarming, arrival or other handler: it leaves Active Selection,
\* circle center, arming flag, watch handle, label, watches, markers and
\* the record of the last handler as they are.
C27_RadiusIndependent ==
    [][circleRef' # circleRef
       => UNCHANGED <<activeMarker, circleCenter, targetAcquired, watchId,
                      btnText, liveWatches, placed, markers, pending,
                      last>>]_vars

\* an arrival decided with the edited radius, which is still in force
C27_Witness ==
    /\ last.op = "position"
    /\ last.fx.alert = "arrived"
    /\ last.fx.radius = DEFAULT_RADIUS \div 2
    /\ circleRef = last.fx.radius
    /\ MachineState(Core) = "SELECTED"

\* a success callback runs in this step
CallbackRuns == \E w \in 1..MaxWatches : pending'[w] = pending[w] - 1

\* C28: a position update handled in ARMED counts as an arrival exactly
\* when its distance to the Active Selection is below the radius the
\* circle has when the update is handled.
C28_RadiusAtHandling ==
    [][(CallbackRuns /\ targetAcquired /\ activeMarker # Null
            /\ circleRef # Null)
       => (last'.fx.alert = "arrived"
              <=> Distance(placed[activeMarker].position, last'.pos)
                      < circleRef)]_vars

\* an update inside the default radius and on the edited one: no arrival
C28_Witness ==
    /\ LastUpdateArmed
    /\ last.fx.radius = DEFAULT_RADIUS \div 2
    /\ LastDistance = DEFAULT_RADIUS \div 2
    /\ last.fx.alert = "none"
    /\ targetAcquired


\* the marker was added by a right-click on the map
ByRightClick(m) == placed[m].title[1] = "latlng"

\* C29: a right-click on the map, in any state, adds a marker and leaves
\* Active Selection, circle center, arming flag, watch handle, label and
\* live watches unchanged; and a click on a marker added that way, handled
\* when no marker of its title is designated and the machine is not ARMED,
\* designates it and centers the circle on it, as for a predefined marker.
C29_RightClickOnlyAddsMarker ==
    /\ last.op = "rightclick"
           => /\ SelectionKept
              /\ ArmingKept
              /\ liveWatches = last.pre.live
              /\ last.marker = Len(placed)
              /\ last.fx = NoFx
    /\ (/\ last.op = "click"
        /\ ByRightClick(last.marker)
        /\ ~last.pre.targetAcquired
        /\ \/ last.pre.activeMarker = Null
           \/ placed[last.pre.activeMarker].title # placed[last.marker].title)
           => /\ activeMarker = last.marker
              /\ circleCenter = placed[last.marker].position

\* a marker was added by right-click while ARMED
C29_Witness ==
    /\ last.op = "rightclick"
    /\ MachineState(last.pre) = "ARMED"
    /\ targetAcquired
    /\ ByRightClick(Len(placed))
    /\ activeMarker # Len(placed)

====
